---- MODULE Spec2Model ----
(***************************************************************************)
(* Verification model of the quantitative trade model in src/src/model:    *)
(*   equilibrium.py  solve_equilibrium and its helpers, welfare_change     *)
(*   data.py         load_inputs, ModelData.validate                       *)
(*   optimize.py     genetic_optimize                                      *)
(*                                                                         *)
(* Floating point numbers are modelled at reduced precision: a finite      *)
(* value v is the integer v * ONE (two decimal digits), results of         *)
(* multiplication and division are rounded toward zero, values beyond      *)
(* MAXV overflow to the infinities, and NaN is a value of its own that     *)
(* compares false with everything, as in IEEE 754 / numpy.                 *)
(***************************************************************************)
EXTENDS Integers, Sequences, FiniteSets, TLC

\* ------------------------------------------------------------------------
\* Floating point layer
\* ------------------------------------------------------------------------
ONE == 10 * 10
HALF == ONE \div 2
MAXV == 400 * ONE
INF == MAXV + 1
NINF == 0 - INF
NAN == MAXV + 2

IsNaN(x) == x = NAN
IsFinite(x) == x >= 0 - MAXV /\ x <= MAXV
AbsI(n) == IF n < 0 THEN 0 - n ELSE n
SignI(n) == IF n < 0 THEN 0 - 1 ELSE IF n > 0 THEN 1 ELSE 0

\* round an exact integer result into the representable range
Sat(n) == IF n > MAXV THEN INF ELSE IF n < 0 - MAXV THEN NINF ELSE n

Neg(x) == IF IsNaN(x) THEN NAN ELSE 0 - x

Add(a, b) ==
  IF IsNaN(a) \/ IsNaN(b) THEN NAN
  ELSE IF a = INF THEN (IF b = NINF THEN NAN ELSE INF)
  ELSE IF a = NINF THEN (IF b = INF THEN NAN ELSE NINF)
  ELSE IF b = INF \/ b = NINF THEN b
  ELSE Sat(a + b)

Sub(a, b) == Add(a, Neg(b))

Mul(a, b) ==
  IF IsNaN(a) \/ IsNaN(b) THEN NAN
  ELSE IF ~IsFinite(a) \/ ~IsFinite(b)
       THEN (IF a = 0 \/ b = 0 THEN NAN
             ELSE IF SignI(a) * SignI(b) > 0 THEN INF ELSE NINF)
  ELSE Sat(SignI(a) * SignI(b) * ((AbsI(a) * AbsI(b)) \div ONE))

\* numpy true division: x/0 is +-inf, 0/0 and inf/inf are nan; no exception
Div(a, b) ==
  IF IsNaN(a) \/ IsNaN(b) THEN NAN
  ELSE IF ~IsFinite(b)
       THEN (IF IsFinite(a) THEN 0 ELSE NAN)
  ELSE IF b = 0
       THEN (IF a = 0 THEN NAN ELSE IF a > 0 THEN INF ELSE NINF)
  ELSE IF ~IsFinite(a)
       THEN (IF SignI(a) * SignI(b) > 0 THEN INF ELSE NINF)
  ELSE Sat(SignI(a) * SignI(b) * ((AbsI(a) * ONE) \div AbsI(b)))

Abs(x) == IF IsNaN(x) THEN NAN ELSE AbsI(x)

\* comparisons with NaN are false
Lt(a, b) == ~IsNaN(a) /\ ~IsNaN(b) /\ a < b
Gt(a, b) == Lt(b, a)

\* Python's builtin max(a, b): keeps a unless b > a
PyMax(a, b) == IF Gt(b, a) THEN b ELSE a

\* np.max over the values f[d], d in a finite index set: NaN if any is NaN
RECURSIVE NpMaxSet(_, _)
NpMaxSet(f, dom) ==
  IF dom = {} THEN NINF
  ELSE LET d == CHOOSE e \in dom : TRUE
           rest == NpMaxSet(f, dom \ {d})
       IN IF IsNaN(f[d]) \/ IsNaN(rest) THEN NAN
          ELSE IF f[d] > rest THEN f[d] ELSE rest
NpMax(f) == NpMaxSet(f, DOMAIN f)

\* sum of g[d] over the indices 0..n-1 in index order
RECURSIVE SumTo(_, _)
SumTo(g, n) == IF n = 0 THEN 0 ELSE Add(SumTo(g, n - 1), g[n - 1])

\* x^p for an integer p >= 0
RECURSIVE PowInt(_, _)
PowInt(x, p) == IF p = 0 THEN ONE ELSE Mul(PowInt(x, p - 1), x)

\* the least r in lo..hi with r^q >= x (hi satisfies it)
RECURSIVE RootSearch(_, _, _, _)
RootSearch(x, q, lo, hi) ==
  IF lo >= hi THEN hi
  ELSE LET mid == (lo + hi) \div 2
       IN IF PowInt(mid, q) >= x THEN RootSearch(x, q, lo, mid)
          ELSE RootSearch(x, q, mid + 1, hi)

\* x^(1/q) for finite x >= 0 and an integer q >= 1
Root(x, q) == IF q = 1 THEN x
              ELSE RootSearch(x, q, 0, IF x > ONE THEN x ELSE ONE)

RECURSIVE Gcd(_, _)
Gcd(a, b) == IF b = 0 THEN a ELSE Gcd(b, a % b)

\* np.power(x, p/q) for integers p >= 0, q >= 1 (a non-negative exponent)
PowPos(x, p, q) ==
  IF p = 0 THEN ONE
  ELSE IF IsNaN(x) THEN NAN
  ELSE IF x = INF THEN INF
  ELSE IF x < 0 THEN (IF q = 1 THEN (IF x = NINF THEN (IF p % 2 = 0 THEN INF ELSE NINF)
                                     ELSE PowInt(x, p))
                      ELSE NAN)
  ELSE PowInt(Root(x, q), p)

\* np.power(x, e) for the rational exponent e = n/d, n and d integers of
\* either sign, d # 0
Power(x, n, d) ==
  LET g == Gcd(AbsI(n), AbsI(d))
      p == AbsI(n) \div g
      q == AbsI(d) \div g
  IN IF n = 0 \/ SignI(n) = SignI(d) THEN PowPos(x, p, q)
     ELSE Div(ONE, PowPos(x, p, q))

\* ------------------------------------------------------------------------
\* Dimensions and index sets
\* ------------------------------------------------------------------------
NC == 2
NS == 1
Countries == 0 .. (NC - 1)
Sectors == 0 .. (NS - 1)
CS == Countries \X Sectors
CCS == Countries \X Countries \X Sectors
CSS == Countries \X Sectors \X Sectors

\* np.ones(shape) over an index set
Ones(dom) == [d \in dom |-> ONE]

\* ------------------------------------------------------------------------
\* data.py
\* ------------------------------------------------------------------------
\* The input directory, by what its files hold:
\*   io        the share of every io_coeffs.csv row (country, sector, input 0)
\*   rate      the rate of the tariffs_baseline.csv row (0, NC-1, 0)
\*   gamma     gamma_weights.csv: "even" (every weight 1/2), "no0" (no weight
\*             on exporter 0), "closed" (no weight for importer NC-1),
\*             "noexport" (no weight on exporter NC-1 but at home)
\*   labor     labor_endowments.csv: "equal" (all 1) or "unequal" (i + 1)
\*   balance   trade_balance.csv: "zero", "deficit" (-1 for country 0,
\*             +1 for country NC-1) or "surplus" (+1 for country 0, -1 for
\*             country NC-1)
\*   sigma     the sigma of every elasticities.csv row (an integer)
\*   bad_id    a trade_flows.csv row carries an id beyond the dimensions
\* tariff, iceberg (no iceberg_costs.csv), z (no productivity.csv) and
\* a (no utility_weights.csv) get the loader's defaults.
BaseFiles ==
  [io |-> 0, rate |-> 0, gamma |-> "even", labor |-> "equal",
   balance |-> "zero", sigma |-> 4, bad_id |-> FALSE]

AllFiles ==
  [io : {0, HALF, ONE, 3 * HALF}, rate : {0 - ONE, 0, ONE \div 5},
   gamma : {"even", "no0", "closed", "noexport"}, labor : {"equal", "unequal"},
   balance : {"zero", "deficit", "surplus"}, sigma : {2, 4}, bad_id : BOOLEAN]

FileFields == {"io", "rate", "gamma", "labor", "balance", "sigma", "bad_id"}

\* the number of files that differ from the base directory
Differs(f) == Cardinality({x \in FileFields : f[x] # BaseFiles[x]})

\* data.py:110  beta = 1.0 - alpha.sum(axis=2)
BetaOf(alpha) ==
  [d \in CS |-> Sub(ONE, SumTo([k \in Sectors |-> alpha[<<d[1], d[2], k>>]], NS))]

\* the ad-valorem rate taken for the tariff factor
TariffFactor_mut(rate) == rate

\* data.py:98-99  tariff[i, j, s] = 1.0 + rate
TariffFactor(rate) == Add(ONE, rate)

\* data.py:64-205  load_inputs: the ModelData built from the files, or the
\* exception raised
load_inputs(f) ==
  LET tariff == [d \in CCS |-> IF d = <<0, NC - 1, 0>> THEN TariffFactor(f.rate) ELSE ONE]
      alpha == [d \in CSS |-> IF d[3] = 0 THEN f.io ELSE 0]
      beta == BetaOf(alpha)
      L == [i \in Countries |-> IF f.labor = "equal" THEN ONE ELSE (i + 1) * ONE]
      D == [i \in Countries |->
              IF f.balance = "zero" THEN 0
              ELSE IF i = 0 THEN (IF f.balance = "deficit" THEN 0 - ONE ELSE ONE)
              ELSE IF i = NC - 1 THEN (IF f.balance = "deficit" THEN ONE ELSE 0 - ONE)
              ELSE 0]
      gamma == [d \in CCS |->
                 IF f.gamma = "no0" /\ d[2] = 0 THEN 0
                 ELSE IF f.gamma = "closed" /\ d[1] = NC - 1 THEN 0
                 ELSE IF f.gamma = "noexport" /\ d[2] = NC - 1 /\ d[1] # NC - 1 THEN 0
                 ELSE HALF]
  IN IF f.bad_id THEN [err |-> "IndexError"]
     ELSE IF \E d \in CS : Lt(beta[d], 0) THEN [err |-> "ValueError"]
     ELSE [err |-> "none",
           a |-> [d \in CS |-> Div(ONE, NS * ONE)],
           L |-> L, D |-> D, alpha |-> alpha, beta |-> beta,
           z |-> Ones(CS), sigma |-> [s \in Sectors |-> f.sigma],
           gamma |-> gamma, tariff |-> tariff, iceberg |-> Ones(CCS)]

\* ------------------------------------------------------------------------
\* equilibrium.py: the CES price and trade share engine
\* ------------------------------------------------------------------------
\* coef * np.log(x), kept as the factor x^coef it contributes to the
\* exponential of the sum, or as the non-finite value it evaluates to
LogTerm(coef, x) ==
  IF IsNaN(coef) \/ IsNaN(x) \/ Lt(x, 0) THEN [cls |-> "nan", val |-> NAN]
  ELSE IF x = 0 THEN (IF coef = 0 THEN [cls |-> "nan", val |-> NAN]
                      ELSE IF coef > 0 THEN [cls |-> "ninf", val |-> 0]
                      ELSE [cls |-> "pinf", val |-> INF])
  ELSE IF x = INF THEN (IF coef = 0 THEN [cls |-> "nan", val |-> NAN]
                        ELSE IF coef > 0 THEN [cls |-> "pinf", val |-> INF]
                        ELSE [cls |-> "ninf", val |-> 0])
  ELSE [cls |-> "fin", val |-> Power(x, coef, ONE)]

RECURSIVE ProdTo(_, _)
ProdTo(t, n) == IF n = 0 THEN ONE ELSE Mul(ProdTo(t, n - 1), t[n - 1].val)

\* np.exp of the sum of the n log terms t[0..n-1]
ExpSum(t, n) ==
  LET cls == {t[m].cls : m \in 0 .. (n - 1)}
  IN IF "nan" \in cls \/ ("pinf" \in cls /\ "ninf" \in cls) THEN NAN
     ELSE IF "ninf" \in cls THEN 0
     ELSE IF "pinf" \in cls THEN INF
     ELSE ProdTo(t, n)

\* equilibrium.py:20-26
_unit_costs(dat, w, p) ==
  [d \in CS |->
     LET i == d[1]
         s == d[2]
         t == [m \in 0 .. (NS + 1) |->
                 IF m = 0 THEN LogTerm(0 - ONE, dat.z[d])
                 ELSE IF m = 1 THEN LogTerm(dat.beta[d], w[i])
                 ELSE LogTerm(dat.alpha[<<i, s, m - 2>>], p[<<i, m - 2>>])]
     IN ExpSum(t, NS + 2)]

\* equilibrium.py:31-33  term = gamma * delivered ** (1 - sigma)
CesTerm(dat, c, tar, ice) ==
  [d \in CCS |->
     LET delivered == Mul(Mul(c[<<d[2], d[3]>>], ice[d]), tar[d])
     IN Mul(dat.gamma[d], Power(delivered, 1 - dat.sigma[d[3]], 1))]

\* equilibrium.py:34  denom = term.sum(axis=1)
CesDenom(term) ==
  [d \in CS |-> SumTo([j \in Countries |-> term[<<d[1], j, d[2]>>]], NC)]

\* equilibrium.py:36  np.where(denom > 0, term / denom, 0.0)
TradeShare(term_ijs, denom_is) ==
  IF Gt(denom_is, 0) THEN Div(term_ijs, denom_is) ELSE 0

\* equilibrium.py:29-37
_price_index(dat, c, tar, ice) ==
  LET term == CesTerm(dat, c, tar, ice)
      denom == CesDenom(term)
  IN [prices |-> [d \in CS |-> Power(denom[d], 1, 1 - dat.sigma[d[2]])],
      trade_shares |-> [d \in CCS |-> TradeShare(term[d], denom[<<d[1], d[3]>>])]]

\* ------------------------------------------------------------------------
\* equilibrium.py: the income-revenue fixed point
\* ------------------------------------------------------------------------
\* np.abs(new - old) / (np.abs(old) + 1e-12): 1e-12 is below the model's
\* resolution, so it only decides the quotient when old is 0
RelChange(new, old) ==
  LET num == Abs(Sub(new, old))
  IN IF old = 0 THEN (IF IsNaN(num) THEN NAN ELSE IF num = 0 THEN 0 ELSE INF)
     ELSE Div(num, Abs(old))

RelChanges(new, old) == [d \in DOMAIN new |-> RelChange(new[d], old[d])]

\* the default max_iter and tol of _solve_income_and_revenue; 1e-9 is below
\* the model's resolution: max_diff < tol is "no representable change"
InnerMaxIter == 500
InnerTol == 1

\* a budget test that lets one more iteration through
InnerExhausted_mut(n) == n > InnerMaxIter

\* equilibrium.py:54  for _ in range(max_iter): n passes have exhausted it
InnerExhausted(n) == n >= InnerMaxIter

\* equilibrium.py:55-78  one pass of the loop body up to max_diff
InnerPass(dat, shares, tar, ice, w, inc, rev) ==
  LET exp_final == [d \in CS |-> Mul(dat.a[d], inc[d[1]])]
      exp_intermediate ==
        [d \in CS |->
           SumTo([s \in Sectors |-> Mul(dat.alpha[<<d[1], s, d[2]>>], rev[<<d[1], s>>])], NS)]
      total_exp == [d \in CS |-> Add(exp_final[d], exp_intermediate[d])]
      flows == [d \in CCS |-> Mul(shares[d], total_exp[<<d[1], d[3]>>])]
      tariff_component == [d \in CCS |-> Div(Sub(tar[d], ONE), tar[d])]
      t_rev ==
        [i \in Countries |->
           SumTo([j \in Countries |->
                    SumTo([s \in Sectors |->
                             Mul(tariff_component[<<i, j, s>>], flows[<<i, j, s>>])], NS)], NC)]
      income_new == [i \in Countries |-> Add(Add(Mul(w[i], dat.L[i]), t_rev[i]), dat.D[i])]
      revenues_new ==
        [d \in CS |->
           SumTo([i \in Countries |->
                    Div(flows[<<i, d[1], d[2]>>],
                        Mul(ice[<<i, d[1], d[2]>>], tar[<<i, d[1], d[2]>>]))], NC)]
  IN [income_new |-> income_new, revenues_new |-> revenues_new, tariff_rev |-> t_rev,
      max_diff |-> PyMax(NpMax(RelChanges(income_new, inc)),
                         NpMax(RelChanges(revenues_new, rev)))]

\* 0.5 * x + 0.5 * y: the two products are exact in binary floating point,
\* so only the sum is rounded; the model rounds the mean toward y
Mean(x, y) ==
  IF IsFinite(x) /\ IsFinite(y) THEN y - SignI(y - x) * (AbsI(y - x) \div 2)
  ELSE Add(Mul(HALF, x), Mul(HALF, y))

\* equilibrium.py:79-80  0.5 * old + 0.5 * new
Blend(old, new) == [d \in DOMAIN old |-> Mean(old[d], new[d])]

\* ------------------------------------------------------------------------
\* equilibrium.py: the outer solver
\* ------------------------------------------------------------------------
\* equilibrium.py:88-91
_real_income(dat, inc, p) ==
  [i \in Countries |->
     LET t == [s \in Sectors |-> LogTerm(dat.a[<<i, s>>], p[<<i, s>>])]
     IN Div(inc[i], ExpSum(t, NS))]

\* equilibrium.py:127
LaborDemand(dat, rev, w) ==
  [i \in Countries |->
     Div(SumTo([s \in Sectors |-> Mul(dat.beta[<<i, s>>], rev[<<i, s>>])], NS), w[i])]

\* equilibrium.py:128  wages * np.power(labor_demand / data.L, damp)
WagesRaw(dat, rev, w, damp) ==
  LET ld == LaborDemand(dat, rev, w)
  IN [i \in Countries |-> Mul(w[i], Power(Div(ld[i], dat.L[i]), damp, ONE))]

\* equilibrium.py:129  wages_new / wages_new[0]
Normalize(w) == [i \in Countries |-> Div(w[i], w[0])]

\* equilibrium.py:133  (1.0 - damp) * prices + damp * new_prices
DampPrices(p, np, damp) ==
  [d \in CS |-> Add(Mul(Sub(ONE, damp), p[d]), Mul(damp, np[d]))]

\* a convergence measure that looks at the wages only
OuterMaxDiff_mut(w_new, w, np, p_prev) == NpMax(RelChanges(w_new, w))

\* equilibrium.py:135-138
OuterMaxDiff(w_new, w, np, p_prev) ==
  PyMax(NpMax(RelChanges(w_new, w)), NpMax(RelChanges(np, p_prev)))

\* equilibrium.py:160-162
welfare_change(base, new) ==
  [i \in Countries |->
     Mul(Sub(Div(new.real_income[i], base.real_income[i]), ONE), 100 * ONE)]

\* data.py:40-51  ModelData.validate: the shape asserts
validate(dat) ==
  /\ DOMAIN dat.a = CS
  /\ DOMAIN dat.L = Countries
  /\ DOMAIN dat.D = Countries
  /\ DOMAIN dat.alpha = CSS
  /\ DOMAIN dat.beta = CS
  /\ DOMAIN dat.z = CS
  /\ DOMAIN dat.sigma = Sectors
  /\ DOMAIN dat.gamma = CCS
  /\ DOMAIN dat.tariff = CCS
  /\ DOMAIN dat.iceberg = CCS

\* ------------------------------------------------------------------------
\* optimize.py: the genetic optimizer
\* ------------------------------------------------------------------------
\* Candidates are vectors over an integer grid, rates are percentages, and
\* the generator is a small congruential one: what a run draws depends on
\* nothing but the generator's state.
RngMod == 1009
NoSeed == 0 - 1

\* a generator that ignores the seed it is given
default_rng_mut(seed, entropy) == entropy

\* optimize.py:24  np.random.default_rng(config.seed): the state follows
\* from the seed, or from the system's entropy when the seed is None
default_rng(seed, entropy) ==
  IF seed = NoSeed THEN entropy ELSE (seed * 37 + 11) % RngMod

\* the generator's state after one more draw, and after n more draws
RngStep(s) == (s * 31 + 7) % RngMod
RECURSIVE RngSkip(_, _)
RngSkip(s, n) == IF n = 0 THEN s ELSE RngSkip(RngStep(s), n - 1)

\* the m-th draw from state s (m >= 1), as an integer in 0 .. n-1
Draw(s, m, n) == (RngSkip(s, m) \div 3) % n

\* optimize.py:29  rng.uniform(low, high, size=(population, dim))
Uniform(s, low, high, population, dim) ==
  [i \in 1 .. population |->
     [j \in 1 .. dim |-> low[j] + Draw(s, (i - 1) * dim + j, high[j] - low[j] + 1)]]

\* the objectives the model optimizes, all deterministic
Objectives == {"sum", "peak", "flat"}
RECURSIVE SumSeq(_)
SumSeq(x) == IF x = <<>> THEN 0 ELSE Head(x) + SumSeq(Tail(x))
objective(name, ind) ==
  IF name = "sum" THEN SumSeq(ind)
  ELSE IF name = "peak" THEN 0 - SumSeq([j \in 1 .. Len(ind) |-> AbsI(ind[j] - 1)])
  ELSE 0

\* optimize.py:30, 66  np.array([objective(ind) for ind in pop])
Evaluate(name, population) ==
  [i \in 1 .. Len(population) |-> objective(name, population[i])]

\* elites that stop at none
EliteCount_mut(share, population) == 0

\* optimize.py:32  max(1, int(config.elite_share * config.population))
EliteCount(share, population) ==
  IF (share * population) \div 100 > 1 THEN (share * population) \div 100 ELSE 1

\* optimize.py:35  np.argsort(scores)[::-1]: position p of the order holds
\* the index with p-1 indices before it; equal scores come in the order the
\* build's sort leaves them in, reversed ("stable": higher index first)
Before(sc, ties, a, b) ==
  sc[a] > sc[b] \/ (sc[a] = sc[b] /\ IF ties = "stable" THEN a > b ELSE a < b)
Order(sc, ties) ==
  [p \in 1 .. Len(sc) |->
     CHOOSE b \in 1 .. Len(sc) :
       Cardinality({a \in 1 .. Len(sc) : Before(sc, ties, a, b)}) = p - 1]

\* np.argmax: the first position of the largest value
ArgMax(sc) ==
  CHOOSE a \in 1 .. Len(sc) :
    /\ \A b \in 1 .. Len(sc) : sc[b] <= sc[a]
    /\ \A b \in 1 .. (a - 1) : sc[b] < sc[a]

\* optimize.py:42-45  tournament_select(k=3) with the draws m+1 .. m+3
tournament_select(s, m, population, sc) ==
  LET idx == [t \in 1 .. 3 |-> 1 + Draw(s, m + t, Len(population))]
  IN population[idx[ArgMax([t \in 1 .. 3 |-> sc[idx[t]]])]]

\* a child left as crossover and mutation made it
Clip_mut(child, low, high) == child

\* optimize.py:62  np.clip(child, low, high)
Clip(child, low, high) ==
  [j \in 1 .. Len(child) |->
     IF child[j] < low[j] THEN low[j] ELSE IF child[j] > high[j] THEN high[j] ELSE child[j]]

\* optimize.py:49-62  one child from state s: the child, the generator's
\* state after it, and whether rng.integers(1, dim) raised (dim = 1)
MakeChild(s, cfg, population, sc) ==
  LET dim == Len(cfg.low)
      parent1 == tournament_select(s, 0, population, sc)
      parent2 == tournament_select(s, 3, population, sc)
      cross == Draw(s, 7, 100) < cfg.crossover_rate
      raised == cross /\ dim <= 1
      cross_point == IF cross /\ ~raised THEN 1 + Draw(s, 8, dim - 1) ELSE dim
      n1 == IF cross THEN 8 ELSE 7
      crossed == [j \in 1 .. dim |-> IF j <= cross_point THEN parent1[j] ELSE parent2[j]]
      mutate == Draw(s, n1 + 1, 100) < cfg.mutation_rate
      noise == [j \in 1 .. dim |-> cfg.mutation_scale * (Draw(s, n1 + 1 + j, 5) - 2)]
      mutated == IF mutate THEN [j \in 1 .. dim |-> crossed[j] + noise[j]] ELSE crossed
      n2 == IF mutate THEN n1 + 1 + dim ELSE n1 + 1
  IN [child |-> Clip(mutated, cfg.low, cfg.high), rng |-> RngSkip(s, n2), raised |-> raised]

\* the largest element of a non-empty set of numbers
MaxOf(S) == CHOOSE x \in S : \A y \in S : y <= x

\* ------------------------------------------------------------------------
\* The program state
\* ------------------------------------------------------------------------
VARIABLES
  pc,            \* position of the caller / solver
  files,         \* the input directory
  data,          \* the ModelData load_inputs returned
  args,          \* the arguments of the solve_equilibrium call
  tariff,        \* solve_equilibrium locals ...
  iceberg,
  it,
  wages,
  prices,
  prices_prev,
  new_prices,
  trade_shares,
  income,
  revenues,
  tariff_rev,
  max_diff,
  k,             \* _solve_income_and_revenue locals: the loop counter,
  inc,           \*   income
  rev,           \*   revenues
  exit,          \* how the outer loop was left: "break" or "exhausted"
  result,        \* the EquilibriumResult returned
  err,           \* the exception raised, "none" if none
  base,          \* an earlier call's result and the way its loop was left
  config,        \* genetic_optimize: the GAConfig, bounds and objective
  rng,           \*   locals ...
  pop,
  scores,
  elite_n,
  gen,           \*   generations completed
  new_pop,
  best,          \*   the (candidate, fitness) returned
  hist,          \* the populations this run has evaluated, in order
  prev           \* an earlier run's return value and populations

solver == <<tariff, iceberg, it, wages, prices, prices_prev, new_prices, trade_shares,
            income, revenues, tariff_rev, max_diff, k, inc, rev, exit>>
optimizer == <<config, rng, pop, scores, elite_n, gen, new_pop, best, hist, prev>>
vars == <<pc, files, data, args, solver, result, err, base, optimizer>>

NoVal == <<>>

\* a country that sells at home only and spends all it earns abroad
Stranded == [BaseFiles EXCEPT !.gamma = "noexport", !.balance = "surplus"]

\* the directories the model loads: the base directory with at most one
\* of its files changed, and Stranded
Scenarios == {f \in AllFiles : Differs(f) <= 1} \cup {Stranded}

\* the calls the model makes: solve_equilibrium(data, tariff, iceberg,
\* max_iter, tol, damp) with
\*   tariff   "None", "zero" (an (N,N,S) array with a zero factor in cell
\*            (0, NC-1, 0)) or "bcast" (an array of shape (1,1,1) holding 1.2)
\*   iceberg  "None" or "zero" (an (N,N,S) array of zeros)
MaxIter == 2
TolSet == {1, 5, 20}
DampSet == {(3 * ONE) \div 10, HALF}
BaseArgs == [tariff |-> "None", iceberg |-> "None", max_iter |-> MaxIter,
             tol |-> 1, damp |-> (3 * ONE) \div 10]
AllArgs == [tariff : {"None", "zero", "bcast"}, iceberg : {"None", "zero"},
            max_iter : 0 .. MaxIter, tol : TolSet, damp : DampSet]
ArgFields == {"tariff", "iceberg", "max_iter", "tol", "damp"}
ArgSet == {a \in AllArgs :
             Cardinality({x \in ArgFields : a[x] # BaseArgs[x]}) <= 1}

TariffOf(dat, a) ==
  IF a.tariff = "None" THEN dat.tariff
  ELSE IF a.tariff = "zero" THEN [d \in CCS |-> IF d = <<0, NC - 1, 0>> THEN 0 ELSE ONE]
  ELSE [d \in CCS |-> (6 * ONE) \div 5]

IcebergOf(dat, a) ==
  IF a.iceberg = "None" THEN dat.iceberg ELSE [d \in CCS |-> 0]

Idle ==
  /\ tariff = NoVal /\ iceberg = NoVal /\ it = 0 /\ wages = NoVal /\ prices = NoVal
  /\ prices_prev = NoVal /\ new_prices = NoVal /\ trade_shares = NoVal
  /\ income = NoVal /\ revenues = NoVal /\ tariff_rev = NoVal /\ max_diff = 0
  /\ k = 0 /\ inc = NoVal /\ rev = NoVal /\ exit = "none"

GaIdle ==
  /\ config = NoVal /\ rng = 0 /\ pop = NoVal /\ scores = NoVal /\ elite_n = 0
  /\ gen = 0 /\ new_pop = NoVal /\ best = NoVal /\ hist = NoVal
  /\ prev = NoVal

Init ==
  /\ pc = "load"
  /\ files \in Scenarios
  /\ data = NoVal /\ args = NoVal /\ result = NoVal /\ err = "none"
  /\ base = NoVal
  /\ Idle
  /\ GaIdle

\* data.py:64-205  load_inputs(base_dir)
LoadInputs ==
  /\ pc = "load"
  /\ LET d == load_inputs(files)
     IN IF d.err # "none"
        THEN /\ pc' = "error" /\ err' = d.err /\ data' = data
        ELSE IF ~validate(d)
        THEN /\ pc' = "error" /\ err' = "AssertionError" /\ data' = data
        ELSE /\ pc' = "loaded" /\ err' = err /\ data' = d
  /\ UNCHANGED optimizer
  /\ UNCHANGED <<files, args, solver, result, base>>

\* equilibrium.py:94-111  solve_equilibrium: the call and the initial guess
Call ==
  /\ pc = "loaded"
  /\ \E a \in ArgSet :
       /\ args' = a
       /\ tariff' = TariffOf(data, a)
       /\ iceberg' = IcebergOf(data, a)
       /\ pc' = IF a.max_iter > 0 THEN "round" ELSE "ret"
  /\ wages' = Ones(Countries)
  /\ prices' = Ones(CS)
  /\ income' = [i \in Countries |-> Add(Mul(ONE, data.L[i]), data.D[i])]
  /\ revenues' = Ones(CS)
  /\ it' = 0
  /\ UNCHANGED optimizer
  /\ UNCHANGED <<files, data, prices_prev, new_prices, trade_shares, tariff_rev,
                 max_diff, k, inc, rev, exit, result, err, base>>

\* equilibrium.py:114-117, 51-52  the start of a round: costs, prices and
\* shares, and the entry into _solve_income_and_revenue
RoundBegin ==
  /\ pc = "round"
  /\ LET costs == _unit_costs(data, wages, prices)
         pi == _price_index(data, costs, tariff, iceberg)
     IN /\ new_prices' = pi.prices
        /\ trade_shares' = pi.trade_shares
  /\ inc' = income
  /\ rev' = revenues
  /\ k' = 0
  /\ pc' = "inner"
  /\ UNCHANGED optimizer
  /\ UNCHANGED <<files, data, args, tariff, iceberg, it, wages, prices, prices_prev,
                 income, revenues, tariff_rev, max_diff, exit, result, err, base>>

\* equilibrium.py:54-85  one iteration of the income-revenue loop, and the
\* return from _solve_income_and_revenue when it is the last
InnerStep ==
  /\ pc = "inner"
  /\ LET r == InnerPass(data, trade_shares, tariff, iceberg, wages, inc, rev)
         inc2 == Blend(inc, r.income_new)
         rev2 == Blend(rev, r.revenues_new)
     IN /\ tariff_rev' = r.tariff_rev
        /\ inc' = inc2
        /\ rev' = rev2
        /\ k' = k + 1
        /\ IF Lt(r.max_diff, InnerTol)
           THEN /\ income' = r.income_new /\ revenues' = r.revenues_new /\ pc' = "update"
           ELSE IF InnerExhausted(k + 1)
           THEN /\ income' = inc2 /\ revenues' = rev2 /\ pc' = "update"
           ELSE /\ income' = income /\ revenues' = revenues /\ pc' = "inner"
  /\ UNCHANGED optimizer
  /\ UNCHANGED <<files, data, args, tariff, iceberg, it, wages, prices, prices_prev,
                 new_prices, trade_shares, max_diff, exit, result, err, base>>

\* equilibrium.py:127-145  the wage and price update and the convergence test
RoundEnd ==
  /\ pc = "update"
  /\ LET wages_new == Normalize(WagesRaw(data, revenues, wages, args.damp))
         md == OuterMaxDiff(wages_new, wages, new_prices, prices)
     IN /\ prices_prev' = prices
        /\ prices' = DampPrices(prices, new_prices, args.damp)
        /\ max_diff' = md
        /\ wages' = wages_new
        /\ it' = it + 1
        /\ IF Lt(md, args.tol) THEN /\ exit' = "break" /\ pc' = "ret"
           ELSE IF it + 1 >= args.max_iter THEN /\ exit' = "exhausted" /\ pc' = "ret"
           ELSE /\ exit' = exit /\ pc' = "round"
  /\ UNCHANGED optimizer
  /\ UNCHANGED <<files, data, args, tariff, iceberg, new_prices, trade_shares,
                 income, revenues, tariff_rev, k, inc, rev, result, err, base>>

\* equilibrium.py:147-157  real income and the result; with no round run,
\* trade_shares and tariff_rev were never bound
Return ==
  /\ pc = "ret"
  /\ IF it = 0
     THEN /\ pc' = "error" /\ err' = "UnboundLocalError" /\ result' = result
     ELSE /\ pc' = "done" /\ err' = err
          /\ result' = [wages |-> wages, prices |-> prices, trade_shares |-> trade_shares,
                        revenues |-> revenues, income |-> income,
                        tariff_revenue |-> tariff_rev,
                        real_income |-> _real_income(data, income, prices)]
  /\ UNCHANGED optimizer
  /\ UNCHANGED <<files, data, args, solver, base>>

Next == LoadInputs \/ Call \/ RoundBegin \/ InnerStep \/ RoundEnd \/ Return

Spec == Init /\ [][Next]_vars

\* A caller that solves twice on the same data (a baseline and a second
\* call with its own arguments) and keeps the first result.
TwoScenarios == {f \in Scenarios : f.io \in {0, 3 * HALF} /\ f.rate = 0 /\ f.gamma = "even"
                                   /\ f.balance = "zero" /\ f.sigma = 4 /\ ~f.bad_id}

InitTwo == Init /\ files \in TwoScenarios

CallAgain ==
  /\ pc = "done"
  /\ base = NoVal
  /\ base' = [result |-> result, exit |-> exit]
  /\ pc' = "loaded"
  /\ result' = NoVal
  /\ args' = NoVal
  /\ tariff' = NoVal /\ iceberg' = NoVal /\ it' = 0 /\ wages' = NoVal /\ prices' = NoVal
  /\ prices_prev' = NoVal /\ new_prices' = NoVal /\ trade_shares' = NoVal
  /\ income' = NoVal /\ revenues' = NoVal /\ tariff_rev' = NoVal /\ max_diff' = 0
  /\ k' = 0 /\ inc' = NoVal /\ rev' = NoVal /\ exit' = "none"
  /\ UNCHANGED optimizer
  /\ UNCHANGED <<files, data, err>>

NextTwo == Next \/ CallAgain

SpecTwo == InitTwo /\ [][NextTwo]_vars

\* ------------------------------------------------------------------------
\* genetic_optimize, run twice by a caller with the same objective, bounds
\* and GAConfig
\* ------------------------------------------------------------------------
Population == 4
Generations == 2
Dim == 2
Grid == 3
EntropySet == {5, 6}

GaConfigs ==
  {[population |-> Population, generations |-> g, crossover_rate |-> c,
    mutation_rate |-> m, mutation_scale |-> 1, elite_share |-> e, seed |-> sd,
    low |-> [j \in 1 .. d |-> 0], high |-> [j \in 1 .. d |-> Grid],
    objective |-> o, ties |-> t] :
     g \in 0 .. Generations, c \in {0, 80}, m \in {10, 100}, e \in {10, 50, 100},
     sd \in {NoSeed, 1, 2}, d \in {1, Dim}, o \in Objectives, t \in {"stable", "other"}}

InitGA ==
  /\ pc = "ga"
  /\ files = NoVal /\ data = NoVal /\ args = NoVal /\ result = NoVal /\ err = "none"
  /\ base = NoVal
  /\ Idle
  /\ config \in GaConfigs
  /\ rng = 0 /\ pop = NoVal /\ scores = NoVal /\ elite_n = 0 /\ gen = 0
  /\ new_pop = NoVal /\ best = NoVal /\ hist = NoVal /\ prev = NoVal

\* optimize.py:24-32  the generator, the initial population and its scores
GaStart ==
  /\ pc = "ga"
  /\ \E e \in EntropySet :
       LET s == default_rng(config.seed, e)
           dim == Len(config.low)
           p == Uniform(s, config.low, config.high, config.population, dim)
       IN /\ rng' = RngSkip(s, config.population * dim)
          /\ pop' = p
          /\ scores' = Evaluate(config.objective, p)
          /\ hist' = <<p>>
  /\ elite_n' = EliteCount(config.elite_share, config.population)
  /\ gen' = 0
  /\ pc' = "ga_loop"
  /\ UNCHANGED <<files, data, args, solver, result, err, base, config, new_pop, best, prev>>

\* optimize.py:34-47  a generation begins: the sort and the elites
GaSort ==
  /\ pc = "ga_loop"
  /\ gen < config.generations
  /\ LET order == Order(scores, config.ties)
         sorted == [q \in 1 .. Len(pop) |-> pop[order[q]]]
     IN /\ pop' = sorted
        /\ scores' = [q \in 1 .. Len(pop) |-> scores[order[q]]]
        /\ new_pop' = SubSeq(sorted, 1, elite_n)
  /\ pc' = "ga_child"
  /\ UNCHANGED <<files, data, args, solver, result, err, base, config, rng, elite_n,
                 gen, best, hist, prev>>

\* optimize.py:48-63  one pass of the while loop
GaChild ==
  /\ pc = "ga_child"
  /\ Len(new_pop) < config.population
  /\ LET c == MakeChild(rng, config, pop, scores)
     IN IF c.raised
        THEN /\ pc' = "ga_error" /\ err' = "ValueError"
             /\ UNCHANGED <<rng, new_pop>>
        ELSE /\ pc' = pc /\ err' = err
             /\ rng' = c.rng
             /\ new_pop' = Append(new_pop, c.child)
  /\ UNCHANGED <<files, data, args, solver, result, base, config, pop, scores, elite_n,
                 gen, best, hist, prev>>

\* optimize.py:65-66  the new population replaces the old and is scored
GaEvaluate ==
  /\ pc = "ga_child"
  /\ Len(new_pop) >= config.population
  /\ pop' = new_pop
  /\ scores' = Evaluate(config.objective, new_pop)
  /\ hist' = Append(hist, new_pop)
  /\ gen' = gen + 1
  /\ pc' = "ga_loop"
  /\ UNCHANGED <<files, data, args, solver, result, err, base, config, rng, elite_n,
                 new_pop, best, prev>>

\* optimize.py:68-69
GaReturn ==
  /\ pc = "ga_loop"
  /\ gen >= config.generations
  /\ best' = [x |-> pop[ArgMax(scores)], fitness |-> scores[ArgMax(scores)]]
  /\ pc' = "ga_done"
  /\ UNCHANGED <<files, data, args, solver, result, err, base, config, rng, pop, scores,
                 elite_n, gen, new_pop, hist, prev>>

\* the caller keeps what the run returned and runs genetic_optimize again
GaAgain ==
  /\ pc = "ga_done"
  /\ prev = NoVal
  /\ prev' = [best |-> best, hist |-> hist]
  /\ rng' = 0 /\ pop' = NoVal /\ scores' = NoVal /\ elite_n' = 0 /\ gen' = 0
  /\ new_pop' = NoVal /\ best' = NoVal /\ hist' = NoVal
  /\ pc' = "ga"
  /\ UNCHANGED <<files, data, args, solver, result, err, base, config>>

NextGA == GaStart \/ GaSort \/ GaChild \/ GaEvaluate \/ GaReturn \/ GaAgain

SpecGA == InitGA /\ [][NextGA]_vars

\* ------------------------------------------------------------------------
\* Claims about solve_equilibrium
\* ------------------------------------------------------------------------
\* solve_equilibrium has been entered and holds its initial guess or a later
\* iterate
Solving == pc \in {"round", "inner", "update", "ret", "done"}

\* a round of the outer loop has begun
RoundStarted == pc \in {"inner", "update", "done"} \/ (pc \in {"round", "ret"} /\ it > 0)

\* the parameters in force are valid: labor shares not negative, labor
\* endowments, tariff and iceberg factors positive, arrays of shape (N, N, S)
ValidParams ==
  /\ \A d \in CS : ~Lt(data.beta[d], 0)
  /\ \A i \in Countries : Gt(data.L[i], 0)
  /\ \A d \in CCS : Gt(tariff[d], 0) /\ Gt(iceberg[d], 0)
  /\ args.tariff # "bcast"

\* C1: wages[0] is exactly 1 at the initial guess and after every outer
\* round, hence in the returned state, for every valid parameter set.
C1_Numeraire == (Solving /\ ValidParams) => wages[0] = ONE

\* the CES denominator of the _price_index call that produced trade_shares
DenomOf == CesDenom(CesTerm(data, _unit_costs(data, wages, prices), tariff, iceberg))

\* the sum over exporters of importer i's shares in sector s
ShareSum(i, s) == SumTo([j \in Countries |-> trade_shares[<<i, j, s>>]], NC)

\* C2: for every importer i and sector s of an output of _price_index: if
\* denom[i,s] > 0 the trade shares sum to 1 over the exporters (to within
\* one unit of resolution per exporter), otherwise every share is 0.
C2_TradeShares ==
  (pc \in {"inner", "update"} /\ ValidParams) =>
    \A d \in CS :
      IF Gt(DenomOf[d], 0)
      THEN ShareSum(d[1], d[2]) <= ONE /\ ShareSum(d[1], d[2]) > ONE - NC
      ELSE \A j \in Countries : trade_shares[<<d[1], j, d[2]>>] = 0

\* C3: two calls that left the outer loop differently (convergence, or
\* max_iter rounds exhausted) never return equal results.
C3_Distinguishable ==
  (pc = "done" /\ base # NoVal /\ base.result = result) => base.exit = exit

\* C5: with invalid parameters (a negative labor share, a non-positive
\* tariff or iceberg factor, an array of the wrong shape, from the files or
\* passed to solve_equilibrium) no round of the outer loop begins.
C5_FailFast == RoundStarted => ValidParams

\* C8: welfare_change(s, s) is exactly 0 for every country, for every
\* state s solve_equilibrium returns.
C8_WelfareZero ==
  (pc = "done" /\ ValidParams) => \A i \in Countries : welfare_change(result, result)[i] = 0

\* a call of solve_equilibrium has ended, by a return or by an exception
Finished == pc \in {"done", "error"}

\* the loop counters stay within their budgets, no exception is raised
\* by a call with max_iter >= 1, and what is returned is the last iterate
C4_Bounded ==
  /\ Solving => (it <= args.max_iter /\ k <= InnerMaxIter)
  /\ pc = "error" =>
       \/ err \in {"IndexError", "ValueError", "AssertionError"} /\ DOMAIN args = {}
       \/ err = "UnboundLocalError" /\ args.max_iter = 0
  /\ pc = "done" =>
       /\ err = "none" /\ it >= 1
       /\ result.wages = wages /\ result.prices = prices
       /\ result.income = income /\ result.revenues = revenues
       /\ result.tariff_revenue = tariff_rev
       /\ (exit = "exhausted" <=> ~Lt(max_diff, args.tol))
       /\ exit = "exhausted" => it = args.max_iter

\* _solve_income_and_revenue returns its last blended iterate when its
\* budget ends without the tolerance being met
InnerLastIterate ==
  (pc = "inner" /\ pc' = "update"
     /\ ~Lt(InnerPass(data, trade_shares, tariff, iceberg, wages, inc, rev).max_diff, InnerTol))
  => (k' = InnerMaxIter /\ income' = inc' /\ revenues' = rev')

\* the steps one round takes at most: its start, the inner iterations and
\* its end
RoundSteps == InnerMaxIter + 2

\* a bound on the number of steps left before the call has ended
Rank ==
  CASE pc = "load" -> MaxIter * RoundSteps + 3
    [] pc = "loaded" -> MaxIter * RoundSteps + 2
    [] pc = "round" -> (args.max_iter - it) * RoundSteps + 1
    [] pc = "inner" -> (args.max_iter - it) * RoundSteps - k
    [] pc = "update" -> (args.max_iter - it - 1) * RoundSteps + 2
    [] pc = "ret" -> 1
    [] OTHER -> 0

\* C4: solve_equilibrium always terminates: at most max_iter outer rounds
\* of at most 500 inner iterations each, and for max_iter >= 1 a loop that
\* exhausts its budget makes the call return the last iterate normally.
\* Every step lowers the natural number Rank, which is 0 only when the
\* call has ended.
C4_Terminates ==
  [][/\ C4_Bounded /\ C4_Bounded'
     /\ InnerLastIterate
     /\ Rank' \in Nat /\ Rank' < Rank
     /\ (Rank' = 0) = Finished']_vars

\* both budgets exhausted in one call, which returned
C4_Witness ==
  pc = "done" /\ exit = "exhausted" /\ k = InnerMaxIter /\ it = args.max_iter /\ err = "none"

\* the scenario of two (NC) identical countries: alpha = 0, beta = 1,
\* sigma = 4, tariffs 1, equal labor, D = 0, equal Armington weights
Symmetric == files = BaseFiles /\ args.tariff = "None" /\ args.iceberg = "None"

\* x takes the same value whichever countries are exchanged
SameRows(x) == \A d \in CS, i \in Countries : x[d] = x[<<i, d[2]>>]
SameCells(x) ==
  \A d \in CCS, i, j \in Countries :
    (d[1] = d[2]) = (i = j) => x[d] = x[<<i, j, d[3]>>]

\* C9: in the symmetric economy the state is symmetric under exchanging
\* countries at the initial guess and after every outer round, and the
\* result has every wage equal to 1, every trade share equal to 1/N (0.5
\* for two countries) and equal real income.
C9_SymmetricEquilibrium ==
  /\ (Solving /\ Symmetric /\ pc \in {"round", "ret", "done"}) =>
       /\ \A i \in Countries : wages[i] = ONE
       /\ SameRows(prices) /\ SameRows(revenues)
       /\ \A i, j \in Countries : income[i] = income[j]
       /\ it > 0 => SameCells(trade_shares)
  /\ (pc = "done" /\ Symmetric) =>
       /\ \A i \in Countries : result.wages[i] = ONE
       /\ \A d \in CCS : result.trade_shares[d] = Div(ONE, NC * ONE)
       /\ \A i, j \in Countries : result.real_income[i] = result.real_income[j]
       /\ \A i \in Countries : IsFinite(result.real_income[i]) /\ result.real_income[i] > 0

C9_Witness ==
  pc = "done" /\ Symmetric /\ it >= 1 /\ result.trade_shares[<<0, NC - 1, 0>>] = Div(ONE, NC * ONE)

\* a step that ends a round of the outer loop
RoundEnds == pc = "update" /\ pc' # "update"

\* C10 (as the code has it): the outer loop stops by convergence at a round
\* exactly when the larger of the maximum relative change of the wages
\* (new against previous) and the maximum relative deviation of the
\* undamped price index computed in this round (new_prices) from the
\* prices the round started with is below tol.
C10_ConvergenceTest ==
  [][RoundEnds =>
       ((exit' = "break") <=>
          Lt(PyMax(NpMax(RelChanges(wages', wages)), NpMax(RelChanges(new_prices, prices))),
             args.tol))]_vars

\* C10 (as stated): the quantity compared with tol is the change of the
\* iterates: new wages against previous wages, and the prices carried into
\* the next round against the prices of the previous round.
C10_IterateChange ==
  [][RoundEnds =>
       ((exit' = "break") <=>
          Lt(PyMax(NpMax(RelChanges(wages', wages)), NpMax(RelChanges(prices', prices))),
             args.tol))]_vars

\* a round after which the damped prices moved by less than tol while the
\* undamped price index is tol or more away, and the loop went on
C10_Witness ==
  /\ pc \in {"round", "ret"} /\ it >= 1 /\ exit # "break"
  /\ Lt(NpMax(RelChanges(prices, prices_prev)), args.tol)
  /\ ~Lt(NpMax(RelChanges(new_prices, prices_prev)), args.tol)

\* ------------------------------------------------------------------------
\* Claims about genetic_optimize
\* ------------------------------------------------------------------------
\* every score the objective returned in this run: the initial population
\* and the population of every generation
AllScores ==
  {objective(config.objective, hist[g][i]) : g \in 1 .. Len(hist), i \in 1 .. config.population}

\* C6: for a deterministic objective the fitness genetic_optimize returns
\* is the maximum over every individual evaluated in the run (the initial
\* population and every generation), and the returned candidate attains it.
C6_BestOfRun ==
  pc = "ga_done" =>
    /\ best.fitness = MaxOf(AllScores)
    /\ objective(config.objective, best.x) = best.fitness

\* a run of two generations whose best was found before the last
\* generation: every child of the last generation scores lower
C6_Witness ==
  /\ pc = "ga_done" /\ gen >= 2 /\ elite_n < config.population
  /\ \A i \in (elite_n + 1) .. config.population : scores[i] < best.fitness
  /\ \E i \in 1 .. config.population : objective(config.objective, hist[1][i]) < best.fitness

\* C7: two runs with the same explicit seed, bounds, GAConfig and
\* deterministic objective evaluate the same sequence of populations and
\* return the same candidate and fitness.
C7_Deterministic ==
  (pc = "ga_done" /\ prev # NoVal /\ config.seed # NoSeed) =>
    (best = prev.best /\ hist = prev.hist)

\* a second seeded run that went through two generations of changing
\* populations
C7_Witness ==
  /\ pc = "ga_done" /\ prev # NoVal /\ config.seed # NoSeed
  /\ gen >= 2 /\ hist[1] # hist[2] /\ hist[2] # hist[3]
  /\ best = prev.best

\* the individuals of population p that score more than individual x
Better(p, x) ==
  {i \in 1 .. Len(p) : objective(config.objective, p[i]) > objective(config.objective, x)}

\* C11: with low <= high componentwise, every population the run has
\* evaluated (the initial sample and every generation) has exactly
\* config.population individuals, every one of them lies within
\* [low, high] in every coordinate, and the top elite_n individuals of a
\* generation stand unchanged at the head of the next: the p-th of them is
\* an individual of the generation before that fewer than p others beat.
C11_PopulationBoundsElites ==
  pc \in {"ga_loop", "ga_child", "ga_done"} =>
    /\ elite_n >= 1 /\ elite_n <= config.population
    /\ \A g \in 1 .. Len(hist) :
         /\ Len(hist[g]) = config.population
         /\ \A i \in 1 .. Len(hist[g]) :
              /\ Len(hist[g][i]) = Len(config.low)
              /\ \A j \in 1 .. Len(config.low) :
                   config.low[j] <= hist[g][i][j] /\ hist[g][i][j] <= config.high[j]
    /\ \A g \in 2 .. Len(hist) :
         \A q \in 1 .. elite_n :
           /\ \E i \in 1 .. Len(hist[g - 1]) : hist[g - 1][i] = hist[g][q]
           /\ Cardinality(Better(hist[g - 1], hist[g][q])) < q

\* a run of two generations with two elites in which mutation carried a
\* child to a bound that no individual of the generation before was on
C11_Witness ==
  /\ pc = "ga_done" /\ gen >= 2 /\ elite_n >= 2
  /\ hist[2] # hist[3]
  /\ \E g \in 2 .. Len(hist), i \in 1 .. config.population, j \in 1 .. Len(config.low) :
       /\ hist[g][i][j] = config.high[j]
       /\ \A a \in 1 .. config.population : hist[g - 1][a][j] < config.high[j]

====
